---- MODULE Spec2Model ----
(***************************************************************************)
(* Model of src/app.py: get_stock_prices (acquisition of a monthly price   *)
(* series with padding and a seeded synthetic fallback) and the Finance    *)
(* page that calls it twice and composes the two series.                   *)
(*                                                                         *)
(* Amounts are integers in hundredths of a unit (1.45 is 145, 350 is       *)
(* 35000).  The process-global numpy generator is a small congruential     *)
(* generator: what matters to the program is that seed() sets its state,   *)
(* that every draw advances it, and that a draw is a function of it.       *)
(***************************************************************************)
EXTENDS Integers, Sequences, FiniteSets, TLC

VARIABLES
    rng,              \* state of the process-global np.random generator
    call,             \* the latest direct call of get_stock_prices: <<>> or <<record>>
    kept,             \* a fallback result its caller held on to: <<>> or <<record>>
    page_pc,          \* position of the Finance page script
    months,           \* Finance page: month labels
    net_worth,        \* Finance page: net worth values
    usd_aud,          \* Finance page: result of the USDAUD=X acquisition, <<>> before it
    msft,             \* Finance page: result of the MSFT acquisition, <<>> before it
    msft_price_aud,   \* Finance page: the composed series
    page_error        \* Finance page: the exception that ended the script, "" if none

vars == <<rng, call, kept, page_pc, months, net_worth, usd_aud, msft,
          msft_price_aud, page_error>>

page_vars == <<page_pc, months, net_worth, usd_aud, msft, msft_price_aud, page_error>>

(***************************************************************************)
(* Bounds of the model.                                                    *)
(***************************************************************************)
MaxCount == 3        \* months_count of a direct call ranges over 0..MaxCount
MaxObs == 2          \* the upstream returns at most MaxObs observations
MaxCsvRows == 13     \* net_worth_data.csv has at most MaxCsvRows data rows
RngMod == 10         \* number of states of the generator

(***************************************************************************)
(* Python helpers.                                                         *)
(***************************************************************************)
Min2(a, b) == IF a <= b THEN a ELSE b
Max2(a, b) == IF a >= b THEN a ELSE b

\* s[start:] with Python's index rules (start may be negative; -0 is 0).
PySliceFrom(s, start) ==
    LET first == IF start < 0 THEN Max2(Len(s) + start, 0) ELSE Min2(start, Len(s))
    IN  SubSeq(s, first + 1, Len(s))

\* [x] * n, empty when n <= 0.
PyRepeat(x, n) == [i \in 1..Max2(n, 0) |-> x]

\* s.endswith(suffix)
EndsWith(s, suffix) ==
    /\ Len(s) >= Len(suffix)
    /\ SubSeq(s, Len(s) - Len(suffix) + 1, Len(s)) = suffix

\* zip(a, b): pairs up to the shorter input.
PyZip(a, b) == [i \in 1..Min2(Len(a), Len(b)) |-> <<a[i], b[i]>>]

USDAUD == <<"U", "S", "D", "A", "U", "D", "=", "X">>
MSFT == <<"M", "S", "F", "T">>
ForexMarker == <<"=", "X">>
Tickers == {USDAUD, MSFT}

\* fallback_data: a dict, or None / {} (both falsy), modelled as the empty mapping.
NoFallback == <<>>
UsdAudFallback == [base_value |-> 145, variation_range |-> 15]
MsftFallback == [base_value |-> 35000, variation_range |-> 5000]
Fallbacks == {NoFallback, UsdAudFallback, MsftFallback}

(***************************************************************************)
(* The process-global generator.                                           *)
(***************************************************************************)
Seed == 42

NpSeedUnseeded(s) == rng

NpSeed(s) == s % RngMod

RngNext(g) == (g + 7) % RngMod

\* The state n draws after g: RngNext applied n times.
RngAdvance(g, n) == (g + 7 * Max2(n, 0)) % RngMod

\* np.random.uniform(low, high) drawn in generator state g: a value in [low, high).
Uniform(g, low, high) == low + ((high - low) * g) \div RngMod

\* np.random.randint(low, high) drawn in generator state g: an integer in [low, high).
RandInt(g, low, high) == low + ((high - low) * g) \div RngMod

(***************************************************************************)
(* The upstream: what yf.Ticker(ticker).history(...) does.                 *)
(***************************************************************************)
PriceVals == {100, 250}

Frames == UNION {[1..k -> PriceVals] : k \in 0..MaxObs}

Upstream ==
    {[kind |-> "raises", cause |-> "network error", rows |-> 0, has_close |-> FALSE, close |-> <<>>]}
    \cup {[kind |-> "frame", cause |-> "", rows |-> Len(s), has_close |-> TRUE, close |-> s] : s \in Frames}
    \cup {[kind |-> "frame", cause |-> "", rows |-> 1, has_close |-> FALSE, close |-> <<>>]}

\* The try block raises: the fetch raised, hist.empty, or hist['Close'] is missing.
TryRaises(up) ==
    \/ up.kind = "raises"
    \/ up.rows = 0
    \/ ~up.has_close

\* str(e) of the exception the try block raised.
ExceptionText(up) ==
    IF up.kind = "raises" THEN up.cause
    ELSE IF up.rows = 0 THEN "No data received from API"
    ELSE "'Close'"

(***************************************************************************)
(* get_stock_prices                                                        *)
(***************************************************************************)
TrailingSliceHead(prices_real, months_count) == SubSeq(prices_real, 1, months_count)

\* list(prices_real[-months_count:])
TrailingSlice(prices_real, months_count) == PySliceFrom(prices_real, 0 - months_count)

PadWithFirst(prices_real, months_count) ==
    prices_real \o PyRepeat(prices_real[1], months_count - Len(prices_real))

PadShort(prices_real, months_count) ==
    prices_real \o PyRepeat(prices_real[Len(prices_real)], months_count - Len(prices_real) - 1)

\* list(prices_real) + [prices_real[-1]] * (months_count - len(prices_real))
PadWithLast(prices_real, months_count) ==
    prices_real \o PyRepeat(prices_real[Len(prices_real)], months_count - Len(prices_real))

Message(template, ticker, cause) ==
    [template |-> template, ticker |-> ticker, cause |-> cause]

\* The branch of the try block that returns real data.
RealData(ticker, months_count, prices_real, g) ==
    IF Len(prices_real) >= months_count
    THEN [raised |-> FALSE, data |-> TrailingSlice(prices_real, months_count),
          is_real |-> TRUE, message |-> Message("real", ticker, ""), rng |-> g]
    ELSE [raised |-> FALSE, data |-> PadWithLast(prices_real, months_count),
          is_real |-> TRUE, message |-> Message("real_padded", ticker, ""), rng |-> g]

DriftAlways(ticker) == 200

\* i * 2 per step for a stock, no drift for a forex pair.
Drift(ticker) == IF EndsWith(ticker, ForexMarker) THEN 0 ELSE 200

\* The list comprehension of the fallback: draw i is made in the i-th state after g.
SynthSeries(ticker, months_count, base_value, variation_range, g) ==
    [i \in 1..Max2(months_count, 0) |->
        base_value
        + Uniform(RngAdvance(g, i), 0 - variation_range, variation_range)
        + (i - 1) * Drift(ticker)]

\* if fallback_data:
HasFallbackNever(fallback_data) == FALSE

HasFallback(fallback_data) == fallback_data # <<>>

FatalAsEmptySeries(ticker, cause, g) ==
    [raised |-> FALSE, data |-> <<>>, is_real |-> FALSE,
     message |-> Message("failed", ticker, cause), rng |-> g]

\* raise Exception(f"Failed to fetch {ticker} data: {str(e)}")
Fatal(ticker, cause, g) ==
    [raised |-> TRUE, error |-> Message("failed", ticker, cause), rng |-> g]

OnFailureFlaggedReal(ticker, months_count, fallback_data, cause, g) ==
    IF fallback_data # <<>>
    THEN [raised |-> FALSE,
          data |-> SynthSeries(ticker, months_count, fallback_data.base_value,
                               fallback_data.variation_range, NpSeed(Seed)),
          is_real |-> TRUE,
          message |-> Message("simulated", ticker, cause),
          rng |-> RngAdvance(NpSeed(Seed), months_count)]
    ELSE Fatal(ticker, cause, g)

\* The except block.
OnFailure(ticker, months_count, fallback_data, cause, g) ==
    IF HasFallback(fallback_data)
    THEN LET seeded == NpSeed(Seed)
         IN  [raised |-> FALSE,
              data |-> SynthSeries(ticker, months_count, fallback_data.base_value,
                                   fallback_data.variation_range, seeded),
              is_real |-> FALSE,
              message |-> Message("simulated", ticker, cause),
              rng |-> RngAdvance(seeded, months_count)]
    ELSE Fatal(ticker, cause, g)

\* get_stock_prices(ticker, months_count, fallback_data=...) with the upstream
\* behaving as up and the generator in state g; field rng is the state it leaves.
GetStockPrices(ticker, months_count, fallback_data, up, g) ==
    IF TryRaises(up)
    THEN OnFailure(ticker, months_count, fallback_data, ExceptionText(up), g)
    ELSE RealData(ticker, months_count, up.close, g)

(***************************************************************************)
(* Direct callers of get_stock_prices and the other users of the generator *)
(***************************************************************************)
\* What the caller receives: the returned tuple or the exception, not the generator.
Returned(r) == [f \in DOMAIN r \ {"rng"} |-> r[f]]

CallRecord(ticker, months_count, fallback_data, up, r) ==
    [ticker |-> ticker, months_count |-> months_count,
     fallback_data |-> fallback_data, up |-> up, result |-> Returned(r)]

\* A call of get_stock_prices by any caller, the upstream behaving as one of ups.
AcquireWith(fallbacks, ups) ==
    \E ticker \in Tickers, months_count \in 0..MaxCount,
       fallback_data \in fallbacks, up \in ups :
        LET r == GetStockPrices(ticker, months_count, fallback_data, up, rng)
        IN  /\ call' = <<CallRecord(ticker, months_count, fallback_data, up, r)>>
            /\ rng' = r.rng
            /\ UNCHANGED <<kept, page_vars>>

Acquire == AcquireWith(Fallbacks, Upstream)

\* The upstream during an outage (the fetch raises or answers with no rows), and
\* one healthy answer.
OutageUpstream ==
    {up \in Upstream : up.kind = "raises" \/ up.rows = 0 \/ up.close = <<100>>}

AcquireInOutage == AcquireWith(Fallbacks \ {NoFallback}, OutageUpstream)

\* The caller holds on to the simulated series it was given.
KeepResult ==
    /\ call # <<>>
    /\ ~call[1].result.raised
    /\ ~call[1].result.is_real
    /\ kept' = <<[ticker |-> call[1].ticker, months_count |-> call[1].months_count,
                  fallback_data |-> call[1].fallback_data, up |-> call[1].up,
                  data |-> call[1].result.data]>>
    /\ UNCHANGED <<rng, call, page_vars>>

\* Number of variates a Data Dashboard table draws after seeding.
TableDraws == [sales |-> 200, employee |-> 100, inventory |-> 120, financial |-> 90]

DataDashboardPage ==
    \E table_type \in DOMAIN TableDraws :
        /\ rng' = RngAdvance(NpSeed(Seed), TableDraws[table_type])
        /\ UNCHANGED <<call, kept, page_vars>>

\* Any other code of the process drawing one variate from the generator.
CallerDraw ==
    /\ rng' = RngNext(rng)
    /\ UNCHANGED <<call, kept, page_vars>>

(***************************************************************************)
(* The Finance page                                                        *)
(***************************************************************************)
MonthCap == 12

\* date.strftime('%b %Y') of a date given as a month number: <<month, year>>.
MonthLabel(d) == <<(d % 12) + 1, 2024 + (d \div 12)>>

\* net_worth_data.csv with n data rows, in ascending or descending date order.
CsvRows(n, order) ==
    [i \in 1..n |->
        LET d == IF order = "asc" THEN i ELSE n + 1 - i
        IN  [Date |-> d, Net_Worth |-> 500000 + 5000 * d]]

CsvFiles ==
    {[kind |-> "rows", rows |-> CsvRows(n, order)] :
        n \in 0..MaxCsvRows, order \in {"asc", "desc"}}
    \cup {[kind |-> "missing", rows |-> <<>>], [kind |-> "unreadable", rows |-> <<>>]}

\* len(pd.date_range(now - 365 days, now, freq='ME')), which depends on the clock.
MonthEndCounts == {12, 13}

InsertByDate(row, sorted) ==
    LET k == Cardinality({i \in 1..Len(sorted) : sorted[i].Date <= row.Date})
    IN  SubSeq(sorted, 1, k) \o <<row>> \o SubSeq(sorted, k + 1, Len(sorted))

\* net_worth_df.sort_values('Date')
RECURSIVE SortByDate(_)
SortByDate(rows) ==
    IF rows = <<>> THEN <<>>
    ELSE InsertByDate(rows[Len(rows)], SortByDate(SubSeq(rows, 1, Len(rows) - 1)))

\* s[-MonthCap:] when len(s) > MonthCap
LastMonths(s) == IF Len(s) > MonthCap THEN PySliceFrom(s, 0 - MonthCap) ELSE s

\* The simulated net worth of the two except branches, drawn after g.
SimulatedNetWorth(n, g) ==
    [i \in 1..n |-> 500000 + RandInt(RngAdvance(g, i), 0 - 50000, 100000) + (i - 1) * 5000]

\* Lines 92-131: seed the generator, then load or simulate the net worth.
LoadNetWorth ==
    /\ page_pc = "start"
    /\ \E csv \in CsvFiles, n \in MonthEndCounts :
        LET seeded == NpSeed(Seed)
            sorted == SortByDate(csv.rows)
        IN  IF csv.kind = "rows"
            THEN /\ months' = LastMonths([i \in 1..Len(sorted) |-> MonthLabel(sorted[i].Date)])
                 /\ net_worth' = LastMonths([i \in 1..Len(sorted) |-> sorted[i].Net_Worth])
                 /\ rng' = seeded
            ELSE /\ months' = [i \in 1..n |-> MonthLabel(i)]
                 /\ net_worth' = SimulatedNetWorth(n, seeded)
                 /\ rng' = RngAdvance(seeded, n)
    /\ page_pc' = "loaded"
    /\ UNCHANGED <<call, kept, usd_aud, msft, msft_price_aud, page_error>>

\* Lines 133-143: the USD/AUD acquisition.
FetchUsdAud ==
    /\ page_pc = "loaded"
    /\ \E up \in Upstream :
        LET r == GetStockPrices(USDAUD, Len(months), UsdAudFallback, up, rng)
        IN  /\ usd_aud' = <<CallRecord(USDAUD, Len(months), UsdAudFallback, up, r)>>
            /\ rng' = r.rng
            /\ page_pc' = IF r.raised THEN "crashed" ELSE "usd_done"
            /\ page_error' = IF r.raised THEN "Exception" ELSE page_error
    /\ UNCHANGED <<call, kept, months, net_worth, msft, msft_price_aud>>

\* Lines 145-155: the MSFT acquisition.
FetchMsft ==
    /\ page_pc = "usd_done"
    /\ \E up \in Upstream :
        LET r == GetStockPrices(MSFT, Len(months), MsftFallback, up, rng)
        IN  /\ msft' = <<CallRecord(MSFT, Len(months), MsftFallback, up, r)>>
            /\ rng' = r.rng
            /\ page_pc' = IF r.raised THEN "crashed" ELSE "msft_done"
            /\ page_error' = IF r.raised THEN "Exception" ELSE page_error
    /\ UNCHANGED <<call, kept, months, net_worth, usd_aud, msft_price_aud>>

\* [usd_price * exchange_rate for usd_price, exchange_rate in zip(msft_price, usd_aud_rate)]
Compose(a, b) ==
    LET pairs == PyZip(a, b) IN [i \in 1..Len(pairs) |-> pairs[i][1] * pairs[i][2]]

\* Lines 158-290: the three charts; min() and max() of an empty list raise ValueError.
RenderCharts ==
    /\ page_pc = "msft_done"
    /\ LET usd_aud_rate == usd_aud[1].result.data
           msft_price == msft[1].result.data
           product == Compose(msft_price, usd_aud_rate)
       IN  IF usd_aud_rate = <<>>
           THEN /\ page_pc' = "crashed"
                /\ page_error' = "ValueError"
                /\ UNCHANGED msft_price_aud
           ELSE /\ msft_price_aud' = product
                /\ page_pc' = IF product = <<>> THEN "crashed" ELSE "charts_done"
                /\ page_error' = IF product = <<>> THEN "ValueError" ELSE page_error
    /\ UNCHANGED <<rng, call, kept, months, net_worth, usd_aud, msft>>

\* Lines 292-321: the metrics; s[-1] and s[0] of an empty list raise IndexError.
RenderMetrics ==
    /\ page_pc = "charts_done"
    /\ LET empty == \/ net_worth = <<>>
                    \/ usd_aud[1].result.data = <<>>
                    \/ msft[1].result.data = <<>>
                    \/ msft_price_aud = <<>>
       IN  /\ page_pc' = IF empty THEN "crashed" ELSE "done"
           /\ page_error' = IF empty THEN "IndexError" ELSE page_error
    /\ UNCHANGED <<rng, call, kept, months, net_worth, usd_aud, msft, msft_price_aud>>

\* Streamlit runs the script again from the top; only the generator outlives a run.
Rerun ==
    /\ page_pc \in {"done", "crashed"}
    /\ page_pc' = "start"
    /\ months' = <<>>
    /\ net_worth' = <<>>
    /\ usd_aud' = <<>>
    /\ msft' = <<>>
    /\ msft_price_aud' = <<>>
    /\ page_error' = ""
    /\ UNCHANGED <<rng, call, kept>>

(***************************************************************************)
(* Specifications                                                          *)
(***************************************************************************)
Init ==
    /\ rng \in 0..(RngMod - 1)
    /\ call = <<>>
    /\ kept = <<>>
    /\ page_pc = "start"
    /\ months = <<>>
    /\ net_worth = <<>>
    /\ usd_aud = <<>>
    /\ msft = <<>>
    /\ msft_price_aud = <<>>
    /\ page_error = ""

\* get_stock_prices called with any request against any upstream.
Next == Acquire \/ DataDashboardPage \/ CallerDraw

Spec == Init /\ [][Next]_vars

\* Repeated calls during an outage, the caller keeping an earlier result.
NextRepeat == AcquireInOutage \/ KeepResult \/ DataDashboardPage \/ CallerDraw

SpecRepeat == Init /\ [][NextRepeat]_vars

\* Runs of the Finance page.
NextPage == LoadNetWorth \/ FetchUsdAud \/ FetchMsft \/ RenderCharts \/ RenderMetrics \/ Rerun

SpecPage == Init /\ [][NextPage]_vars

\* Every call of get_stock_prices the state holds: the direct one and the page's two.
Calls == call \o usd_aud \o msft

(***************************************************************************)
(* Properties                                                              *)
(***************************************************************************)
\* The upstream delivered no closing values: the fetch raised, the frame has no
\* rows, or the frame has no Close column.
NoClosingValues(up) == up.kind = "raises" \/ Len(up.close) = 0

FallbackGiven(c) == c.fallback_data \in {UsdAudFallback, MsftFallback}

\* C1: with a positive months_count and a fallback supplied, whatever the upstream
\* does, get_stock_prices returns a series of exactly months_count values.
C1_LengthInvariant ==
    \A i \in DOMAIN Calls :
        LET c == Calls[i]
        IN  (c.months_count > 0 /\ FallbackGiven(c))
                => (~c.result.raised /\ Len(c.result.data) = c.months_count)

C1_Witness ==
    /\ call # <<>>
    /\ FallbackGiven(call[1])
    /\ call[1].up.kind = "frame"
    /\ Len(call[1].up.close) >= 1
    /\ Len(call[1].up.close) < call[1].months_count
    /\ Len(call[1].result.data) = call[1].months_count

\* C2: with a fallback supplied, get_stock_prices never raises: for every upstream
\* outcome it returns the tuple (data, is_real, message).
C2_NeverRaisesWithFallback ==
    \A i \in DOMAIN Calls :
        LET c == Calls[i]
        IN  FallbackGiven(c)
                => /\ ~c.result.raised
                   /\ {"data", "is_real", "message"} \subseteq DOMAIN c.result

C2_Witness ==
    /\ call # <<>>
    /\ FallbackGiven(call[1])
    /\ call[1].up.kind = "frame"
    /\ call[1].up.rows > 0
    /\ ~call[1].up.has_close
    /\ ~call[1].result.raised
    /\ call[1].result.message.cause = "'Close'"

\* C3: without a fallback, a failed fetch (exception, empty response) makes
\* get_stock_prices raise the "Failed to fetch" error and hand back no series;
\* an answer with closing values raises nothing.
C3_FatalWithoutFallback ==
    \A i \in DOMAIN Calls :
        LET c == Calls[i]
        IN  c.fallback_data = NoFallback
                => IF NoClosingValues(c.up)
                   THEN /\ c.result.raised
                        /\ "data" \notin DOMAIN c.result
                        /\ c.result.error.template = "failed"
                   ELSE ~c.result.raised

C3_Witness ==
    /\ call # <<>>
    /\ call[1].fallback_data = NoFallback
    /\ call[1].up.kind = "frame"
    /\ call[1].up.rows = 0
    /\ call[1].months_count > 0
    /\ call[1].result.raised

\* C4: an answer of k observations, 1 <= k < months_count, comes back as those k
\* observations in order followed by months_count - k copies of the last one,
\* flagged real, and holds no value the upstream did not deliver.
C4_PaddingCorrect ==
    \A i \in DOMAIN Calls :
        LET c == Calls[i]
            k == Len(c.up.close)
            n == c.months_count
        IN  (c.up.kind = "frame" /\ 1 <= k /\ k < n)
                => /\ ~c.result.raised
                   /\ c.result.is_real
                   /\ Len(c.result.data) = n
                   /\ \A j \in 1..k : c.result.data[j] = c.up.close[j]
                   /\ \A j \in (k + 1)..n : c.result.data[j] = c.up.close[k]
                   /\ \A j \in 1..n : \E m \in 1..k : c.result.data[j] = c.up.close[m]

C4_Witness ==
    /\ call # <<>>
    /\ call[1].up.close = <<100, 250>>
    /\ call[1].months_count = 3
    /\ call[1].result.data = <<100, 250, 250>>

\* C5: an answer of k >= months_count > 0 observations comes back as its last
\* months_count observations, oldest first, flagged real, with the unpadded
\* success message.
C5_TrailingWindow ==
    \A i \in DOMAIN Calls :
        LET c == Calls[i]
            k == Len(c.up.close)
            n == c.months_count
        IN  (c.up.kind = "frame" /\ n > 0 /\ k >= n)
                => /\ ~c.result.raised
                   /\ c.result.data = [j \in 1..n |-> c.up.close[k - n + j]]
                   /\ c.result.is_real
                   /\ c.result.message = Message("real", c.ticker, "")

C5_Witness ==
    /\ call # <<>>
    /\ call[1].up.close = <<100, 250>>
    /\ call[1].months_count = 1
    /\ call[1].result.data = <<250>>

SameRequest(a, b) ==
    /\ a.ticker = b.ticker
    /\ a.months_count = b.months_count
    /\ a.fallback_data = b.fallback_data

\* C6: a simulated series equals the simulated series an earlier call with the
\* same ticker, months_count and fallback_data returned, whatever ran in between.
C6_FallbackRepeatable ==
    (/\ kept # <<>>
     /\ call # <<>>
     /\ ~call[1].result.raised
     /\ ~call[1].result.is_real
     /\ SameRequest(kept[1], call[1]))
        => call[1].result.data = kept[1].data

C6_Witness ==
    /\ kept # <<>>
    /\ call # <<>>
    /\ ~call[1].result.raised
    /\ ~call[1].result.is_real
    /\ SameRequest(kept[1], call[1])
    /\ kept[1].up # call[1].up
    /\ call[1].months_count >= 2
    /\ call[1].result.data = kept[1].data
    /\ rng # NpSeed(Seed)

\* C7: a call of get_stock_prices leaves the process-global generator as it was.
C7_NoGeneratorSideEffect == [][Acquire => rng' = rng]_vars

\* C8: the composed series exists only when the two inputs have equal length, and
\* then has that length.
C8_ComposeLengthGuard ==
    page_pc \in {"charts_done", "done"}
        => /\ Len(msft[1].result.data) = Len(usd_aud[1].result.data)
           /\ Len(msft_price_aud) = Len(msft[1].result.data)

\* C9: no run of the Finance page ends in an exception.
C9_PageNeverRaises == page_pc # "crashed"

\* C10: a simulated value i (from 0) is base_value + u + d * i with u within
\* variation_range of zero, d = 0 for a ticker ending in '=X' and d = 2 (200
\* hundredths) otherwise; so a forex series stays within variation_range of
\* base_value, and MSFT with base 350, range 50 and 12 points has element i in
\* [300 + 2i, 400 + 2i].
C10_SynthesisFormula ==
    \A i \in DOMAIN Calls :
        LET c == Calls[i]
            n == c.months_count
            t == c.ticker
            forex == Len(t) >= 2 /\ t[Len(t) - 1] = "=" /\ t[Len(t)] = "X"
            d == IF forex THEN 0 ELSE 200
            base == c.fallback_data.base_value
            range == c.fallback_data.variation_range
        IN  (~c.result.raised /\ ~c.result.is_real)
                => /\ Len(c.result.data) = n
                   /\ \A j \in 1..n :
                        LET v == c.result.data[j]
                            u == v - base - d * (j - 1)
                        IN  /\ 0 - range <= u /\ u <= range
                            /\ forex => (base - range <= v /\ v <= base + range)
                            /\ (t = MSFT /\ base = 35000 /\ range = 5000 /\ n = 12)
                                  => /\ 30000 + 200 * (j - 1) <= v
                                     /\ v <= 40000 + 200 * (j - 1)

C10_Witness ==
    /\ msft # <<>>
    /\ ~msft[1].result.raised
    /\ ~msft[1].result.is_real
    /\ msft[1].months_count = 12
    /\ ~usd_aud[1].result.is_real
    /\ \E j \in 1..12 : msft[1].result.data[j] > 40000

EmptyResponse(up) == up.kind = "frame" /\ up.rows = 0

\* C11: an empty response is handled as a fetch exception is: the result is flagged
\* simulated and carries the simulated message, never the padded one; its series
\* is the one a call with the same request returned when the fetch raised; and
\* is_real holds exactly when the upstream delivered at least one observation.
C11_EmptyAsFailure ==
    /\ \A i \in DOMAIN Calls :
          LET c == Calls[i]
          IN  ~c.result.raised
                  => /\ c.result.is_real <=> (c.up.kind = "frame" /\ Len(c.up.close) >= 1)
                     /\ EmptyResponse(c.up)
                            => /\ ~c.result.is_real
                               /\ c.result.message =
                                     Message("simulated", c.ticker, "No data received from API")
                     /\ c.up.kind = "raises"
                            => /\ ~c.result.is_real
                               /\ c.result.message = Message("simulated", c.ticker, c.up.cause)
    /\ (/\ kept # <<>>
        /\ call # <<>>
        /\ SameRequest(kept[1], call[1])
        /\ kept[1].up.kind = "raises" \/ EmptyResponse(kept[1].up)
        /\ call[1].up.kind = "raises" \/ EmptyResponse(call[1].up))
            => /\ ~call[1].result.raised
               /\ ~call[1].result.is_real
               /\ call[1].result.data = kept[1].data

C11_Witness ==
    /\ kept # <<>>
    /\ call # <<>>
    /\ SameRequest(kept[1], call[1])
    /\ kept[1].up.kind = "raises"
    /\ EmptyResponse(call[1].up)
    /\ call[1].months_count >= 2
    /\ ~call[1].result.is_real
    /\ call[1].result.data = kept[1].data
    /\ call[1].result.message.cause # kept[1].up.cause

\* The noise of simulated value j (from 1) of a call: the value less base_value
\* and less the drift of its ticker.
Noise(c, j) ==
    c.result.data[j] - c.fallback_data.base_value
        - (IF c.ticker = MSFT THEN 200 * (j - 1) ELSE 0)

\* C12: when both acquisitions of a page run are simulated, the two series come
\* from the same draws: at every index the USD/AUD noise over its variation_range
\* equals the MSFT noise (drift removed) over its variation_range, to within the
\* resolution of one hundredth of either series.
C12_FallbackSeriesCorrelated ==
    (/\ usd_aud # <<>>
     /\ msft # <<>>
     /\ ~usd_aud[1].result.raised /\ ~usd_aud[1].result.is_real
     /\ ~msft[1].result.raised /\ ~msft[1].result.is_real)
        => /\ Len(usd_aud[1].result.data) = Len(msft[1].result.data)
           /\ \A j \in 1..Len(msft[1].result.data) :
                LET range_usd == usd_aud[1].fallback_data.variation_range
                    range_msft == msft[1].fallback_data.variation_range
                    diff == Noise(usd_aud[1], j) * range_msft
                            - Noise(msft[1], j) * range_usd
                IN  /\ 0 - range_msft < diff
                    /\ diff < range_usd

C12_Witness ==
    /\ usd_aud # <<>>
    /\ msft # <<>>
    /\ ~usd_aud[1].result.is_real
    /\ ~msft[1].result.is_real
    /\ msft[1].months_count = 12
    /\ \E j, k \in 1..12 : Noise(usd_aud[1], j) # Noise(usd_aud[1], k)
    /\ \A j \in 1..12 :
          Noise(usd_aud[1], j) * 5000 = Noise(msft[1], j) * 15

====
